---- MODULE Spec2Model ----
(***************************************************************************)
(* Model of the recommendation core of movie-recommender-backend:          *)
(*   - RecommenderWrapper (api/recommend/recommender.py): the active model *)
(*     slot, set_model and recommend, run sequentially (Spec) and by the   *)
(*     threads of the serving process (SpecConc);                          *)
(*   - NeuralMF / DeepFM (api/recommend/models): restore and recommend of  *)
(*     one model instance (SpecRec); fit, predict, save and restore of   *)
(*     one model instance over a checkpoint directory (SpecFit);          *)
(*   - the offline pipeline (api/fit_offline.py): the rating matrix built  *)
(*     from the database (SpecLoad) and the split / fit / predict /        *)
(*     evaluate / save run (SpecPipe);                                     *)
(*   - the backend's POST /recommend (backend/run.py): validation, the     *)
(*     retry loop and the handling of the answer (SpecBackend);            *)
(*   - a request served by a model trained on a catalog (SpecServe).       *)
(***************************************************************************)
EXTENDS Integers, Sequences, FiniteSets, TLC

VARIABLES
    model_name,       \* RecommenderWrapper.model_name ("None" or a name)
    model,            \* RecommenderWrapper.model: id of an instance, NoneId if None
    heap,             \* the live model object (the one the slot references): id -> [cls, loaded]
    nextId,           \* id the next created model object gets
    files,            \* state of the checkpoint file of each registry path
    neuralAvailable,  \* NEURAL_MODELS_AVAILABLE
    last,             \* the last wrapper call: arguments, outcome, what it did
    lastSet,          \* the last set_model call, kept across recommend calls
    pc,               \* per serving thread: position in the request handler
    req,              \* per serving thread: the request's model name
    obs,              \* per serving thread: what its last delegation saw
    inst,             \* one NeuralMF / DeepFM instance (SpecRec)
    rec,              \* the last call on inst: arguments, outcome, result
    disk,             \* the checkpoint directory: file name -> content
    data,             \* the training matrix's shape and the weights training yields
    pipe,             \* the offline pipeline: database, matrices, position
    web               \* one backend /recommend request: body, attempts, response

wrapperVars == <<model_name, model, heap, nextId, files, neuralAvailable>>
threadVars == <<pc, req, obs>>
sysVars == <<pipe, web>>
recVars == <<inst, rec, disk, data, pipe, web>>
vars == <<model_name, model, heap, nextId, files, neuralAvailable, last,
          lastSet, pc, req, obs, inst, rec, disk, data, pipe, web>>

----------------------------------------------------------------------------
(* Bounds *)

\* number of model objects a behaviour may create
MaxInst == 3

\* number of request threads of the serving process
NumThreads == 2

\* largest catalog (num_items) of a checkpoint
MaxItems == 3

\* number of distinct score values a network produces
MaxScore == 2

\* longest user context passed to recommend
MaxCtx == 2

\* largest top_k passed to recommend
MaxTopK == 2

\* largest number of rows (users) of a rating matrix
MaxRows == 2

\* largest number of columns (items) of a rating matrix
MaxCols == 2

\* largest external id (_id) of a user or a movie
MaxId == 1

\* longest interaction log
MaxLog == 2

----------------------------------------------------------------------------
(* Variant registry: api/recommend/models/__init__.py *)

NoneId == 0
NoName == "None"

NonNeuralNames == {"EASE", "ItemKNN"}
NeuralNames == {"NeuralMF", "DeepFM"}

\* keys of model_to_ckpt: one checkpoint path per name
model_to_ckpt == NonNeuralNames \cup NeuralNames

\* keys of model_to_cls: the neural classes are registered only with torch
model_to_cls(available) ==
    NonNeuralNames \cup (IF available THEN NeuralNames ELSE {})

\* names a caller may pass to set_model: the four of the registry (the only
\* ones the HTTP layer lets through) and one that is in no mapping
CallNames == model_to_ckpt \cup {"Other"}

FileStates == {"missing", "ok", "corrupt"}

----------------------------------------------------------------------------
(* Model objects *)

\* a freshly constructed model object: model_loaded = False
NewInstance(cls) == [cls |-> cls, loaded |-> FALSE]

\* restore(ckpt) of a NeuralMF / DeepFM object o from the file of path p:
\* raises FileNotFoundError on a missing file, raises from torch.load or the
\* checkpoint lookups on an unreadable file or a file of another variant
\* (model_loaded is then not assigned), else ends with model_loaded = True.
Restore(o, p, fs) ==
    IF fs[p] = "missing"
    THEN [obj |-> o, outcome |-> "FileNotFoundError"]
    ELSE IF fs[p] = "corrupt" \/ o.cls # p
    THEN [obj |-> o, outcome |-> "RestoreError"]
    ELSE [obj |-> [o EXCEPT !.loaded = TRUE], outcome |-> "ok"]

\* restore of an EASE / ItemKNN object (contract of the scoring model)
RestoreOpaque(o, p, fs) ==
    IF fs[p] = "missing"
    THEN [obj |-> o, outcome |-> "FileNotFoundError"]
    ELSE IF fs[p] = "corrupt" \/ o.cls # p
    THEN [obj |-> o, outcome |-> "RestoreError"]
    ELSE [obj |-> [o EXCEPT !.loaded = TRUE], outcome |-> "ok"]

RestoreOf(o, p, fs) ==
    IF o.cls \in NeuralNames THEN Restore(o, p, fs) ELSE RestoreOpaque(o, p, fs)

----------------------------------------------------------------------------
(* RecommenderWrapper: api/recommend/recommender.py *)

\* the wrapper object and the objects it can reach, as one value
Wrapper(name, m, hp, nid) ==
    [model_name |-> name, model |-> m, heap |-> hp, nextId |-> nid]

\* set_model with the reload done on every call (no comparison of names)
set_model_AlwaysReload(w, new_model, fs, available) ==
    LET w1 == [w EXCEPT !.model_name = new_model] IN
    IF new_model \notin model_to_cls(available)
    THEN [w |-> w1, outcome |-> "KeyError",
          instantiated |-> FALSE, restored |-> FALSE]
    ELSE
      LET id == w.nextId
          w2 == [w1 EXCEPT !.model = id,
                           !.heap = (id :> NewInstance(new_model)),
                           !.nextId = id + 1]
      IN
      IF fs[new_model] = "missing"
      THEN [w |-> w2, outcome |-> "FileNotFoundError",
            instantiated |-> TRUE, restored |-> FALSE]
      ELSE
        LET r == RestoreOf(w2.heap[w2.model], new_model, fs) IN
        [w |-> [w2 EXCEPT !.heap[w2.model] = r.obj], outcome |-> r.outcome,
         instantiated |-> TRUE, restored |-> TRUE]

\* set_model with the new object restored but installed only in an empty slot
set_model_KeepOld(w, new_model, fs, available) ==
    IF w.model_name # new_model
    THEN
      LET w1 == [w EXCEPT !.model_name = new_model] IN
      IF new_model \notin model_to_cls(available)
      THEN [w |-> w1, outcome |-> "KeyError",
            instantiated |-> FALSE, restored |-> FALSE]
      ELSE
        LET id == w.nextId
            w2 == IF w.model = NoneId
                  THEN [w1 EXCEPT !.model = id,
                                  !.heap = (id :> NewInstance(new_model)),
                                  !.nextId = id + 1]
                  ELSE [w1 EXCEPT !.nextId = id + 1]
        IN
        IF fs[new_model] = "missing"
        THEN [w |-> w2, outcome |-> "FileNotFoundError",
              instantiated |-> TRUE, restored |-> FALSE]
        ELSE
          LET r == RestoreOf(NewInstance(new_model), new_model, fs) IN
          [w |-> IF w.model = NoneId
                 THEN [w2 EXCEPT !.heap[id] = r.obj] ELSE w2,
           outcome |-> r.outcome,
           instantiated |-> TRUE, restored |-> TRUE]
    ELSE [w |-> w, outcome |-> "ok",
          instantiated |-> FALSE, restored |-> FALSE]

\* set_model with the checkpoint file looked up before the registry
set_model_CkptFirst(w, new_model, fs, available) ==
    IF w.model_name # new_model
    THEN
      LET w1 == [w EXCEPT !.model_name = new_model] IN
      IF new_model \in model_to_ckpt /\ fs[new_model] = "missing"
      THEN [w |-> w1, outcome |-> "FileNotFoundError",
            instantiated |-> FALSE, restored |-> FALSE]
      ELSE IF new_model \notin model_to_cls(available)
      THEN [w |-> w1, outcome |-> "KeyError",
            instantiated |-> FALSE, restored |-> FALSE]
      ELSE
        LET id == w.nextId
            w2 == [w1 EXCEPT !.model = id,
                             !.heap = (id :> NewInstance(new_model)),
                             !.nextId = id + 1]
            r == RestoreOf(w2.heap[w2.model], new_model, fs)
        IN [w |-> [w2 EXCEPT !.heap[w2.model] = r.obj], outcome |-> r.outcome,
            instantiated |-> TRUE, restored |-> TRUE]
    ELSE [w |-> w, outcome |-> "ok",
          instantiated |-> FALSE, restored |-> FALSE]

\* RecommenderWrapper.set_model(new_model), run to completion: the wrapper
\* after the call, how the call ended ("ok" or the exception raised), and
\* whether it constructed a model object and called restore on the slot.
set_model(w, new_model, fs, available) ==
    IF w.model_name # new_model
    THEN
      \* line 19: the name is recorded before anything can fail
      LET w1 == [w EXCEPT !.model_name = new_model] IN
      IF new_model \notin model_to_cls(available)
      THEN [w |-> w1, outcome |-> "KeyError",
            instantiated |-> FALSE, restored |-> FALSE]
      ELSE
        \* line 25: the slot takes the fresh, not yet restored object; the
        \* object it held loses its only reference and is freed
        LET id == w.nextId
            w2 == [w1 EXCEPT !.model = id,
                             !.heap = (id :> NewInstance(new_model)),
                             !.nextId = id + 1]
        IN
        IF fs[new_model] = "missing"
        THEN [w |-> w2, outcome |-> "FileNotFoundError",
              instantiated |-> TRUE, restored |-> FALSE]
        ELSE
          \* line 40: self.model.restore(checkpoint_path)
          LET r == RestoreOf(w2.heap[w2.model], new_model, fs) IN
          [w |-> [w2 EXCEPT !.heap[w2.model] = r.obj], outcome |-> r.outcome,
           instantiated |-> TRUE, restored |-> TRUE]
    ELSE [w |-> w, outcome |-> "ok",
          instantiated |-> FALSE, restored |-> FALSE]

\* recommend without the check of the slot
wrapper_recommend_NoModelCheck(w) ==
    IF w.model_name = NoName
    THEN [outcome |-> "NameNotSet", delegate |-> NoneId]
    ELSE [outcome |-> "delegated", delegate |-> w.model]

\* RecommenderWrapper.recommend(user_context) up to the delegation: the two
\* checks, then self.model.recommend; delegate is the object it is handed to.
wrapper_recommend(w) ==
    IF w.model = NoneId
    THEN [outcome |-> "NoModelLoaded", delegate |-> NoneId]
    ELSE IF w.model_name = NoName
    THEN [outcome |-> "NameNotSet", delegate |-> NoneId]
    ELSE [outcome |-> "delegated", delegate |-> w.model]

\* state of the checkpoint file model_to_ckpt gives for a name
FileOf(n, fs) == IF n \in model_to_ckpt THEN fs[n] ELSE "none"

\* the record kept of a wrapper call: op and arg, how it ended, what it
\* did, the wrapper before it (pre...), the state the checkpoint file of
\* the argument had (argFile), the argument of the set_model call
\* before it (prevArg) and the object a recommend was delegated to
NoCall ==
    [op |-> "none", arg |-> NoName, outcome |-> "none",
     instantiated |-> FALSE, restored |-> FALSE,
     preName |-> NoName, preModel |-> NoneId, preNextId |-> 1,
     preHeap |-> [i \in {} |-> NewInstance(NoName)],
     argFile |-> "none",
     prevArg |-> NoName, delegate |-> NoneId]

threadInit ==
    /\ pc = [t \in {} |-> "idle"]
    /\ req = [t \in {} |-> NoName]
    /\ obs = [t \in {} |-> NoneId]

recInit ==
    /\ inst = [cls |-> NoName]
    /\ rec = [op |-> "none"]
    /\ disk = <<>>
    /\ data = <<>>
    /\ pipe = <<>>
    /\ web = <<>>

wrapperInit ==
    /\ model_name = NoName
    /\ model = NoneId
    /\ heap = [i \in {} |-> NewInstance(NoName)]
    /\ nextId = 1
    /\ files \in [model_to_ckpt -> FileStates]
    /\ neuralAvailable \in BOOLEAN
    /\ last = NoCall
    /\ lastSet = NoCall

Init == wrapperInit /\ threadInit /\ recInit

\* one call of wrapper.set_model(new_model)
SetModel(new_model) ==
    LET r == set_model(Wrapper(model_name, model, heap, nextId),
                       new_model, files, neuralAvailable)
        call == [op |-> "set_model", arg |-> new_model,
                 outcome |-> r.outcome,
                 instantiated |-> r.instantiated,
                 restored |-> r.restored,
                 preName |-> model_name, preModel |-> model,
                 preNextId |-> nextId, preHeap |-> heap,
                 argFile |-> FileOf(new_model, files),
                 prevArg |-> lastSet.arg, delegate |-> NoneId]
    IN /\ r.w.nextId <= MaxInst + 1
       /\ model_name' = r.w.model_name
       /\ model' = r.w.model
       /\ heap' = r.w.heap
       /\ nextId' = r.w.nextId
       /\ last' = call
       /\ lastSet' = call
       /\ UNCHANGED <<files, neuralAvailable, threadVars, recVars>>

\* one call of wrapper.recommend(user_context)
WrapperRecommend ==
    /\ LET r == wrapper_recommend(Wrapper(model_name, model, heap, nextId))
       IN last' = [op |-> "recommend", arg |-> NoName,
                   outcome |-> r.outcome,
                   instantiated |-> FALSE, restored |-> FALSE,
                   preName |-> model_name, preModel |-> model,
                   preNextId |-> nextId, preHeap |-> heap,
                   argFile |-> "none",
                   prevArg |-> lastSet.arg, delegate |-> r.delegate]
    /\ UNCHANGED <<wrapperVars, lastSet, threadVars, recVars>>

\* fit_offline.py writes the checkpoint of a variant (model.fit, model.save)
TrainOffline(n) ==
    /\ n \in model_to_cls(neuralAvailable)
    /\ files[n] # "ok"
    /\ files' = [files EXCEPT ![n] = "ok"]
    /\ UNCHANGED <<model_name, model, heap, nextId, neuralAvailable, last,
                   lastSet, threadVars, recVars>>

Next ==
    \/ \E n \in CallNames : SetModel(n)
    \/ WrapperRecommend
    \/ \E n \in model_to_ckpt : TrainOffline(n)

Spec == Init /\ [][Next]_vars

----------------------------------------------------------------------------
(* Claims on the wrapper, sequential calls (Spec) *)

\* the last set_model call switched from another name and returned normally
SwitchedOk ==
    /\ lastSet.op = "set_model"
    /\ lastSet.outcome = "ok"
    /\ lastSet.prevArg # NoName
    /\ lastSet.prevArg # lastSet.arg

\* C1: after set_model(A) and then set_model(B) with A # B has returned, the
\* slot holds a restored object of variant B that was created by that call,
\* the object the slot held before is no longer the slot's, and every
\* recommend call until the next set_model is delegated to B's object.
C1_SwitchReplacesState ==
    SwitchedOk =>
        /\ model_name = lastSet.arg
        /\ model # NoneId
        /\ model \in DOMAIN heap
        /\ heap[model].cls = lastSet.arg
        /\ heap[model].loaded
        /\ model # lastSet.preModel
        /\ model \notin DOMAIN lastSet.preHeap
        /\ last.op = "recommend" =>
              /\ last.outcome = "delegated"
              /\ last.delegate = model

\* a recommend served after a switch away from a loaded object of variant A
C1_Witness ==
    /\ SwitchedOk
    /\ lastSet.preModel # NoneId
    /\ lastSet.preHeap[lastSet.preModel].loaded
    /\ lastSet.preHeap[lastSet.preModel].cls = lastSet.prevArg
    /\ last.op = "recommend"
    /\ last.outcome = "delegated"

\* C2: a set_model call that fails (name not registered, checkpoint missing,
\* restore error) leaves the recorded model name and the slot's object
\* exactly what they were before the call.
C2_FailedSetModelKeepsSlot ==
    (lastSet.op = "set_model" /\ lastSet.outcome # "ok") =>
        /\ model_name = lastSet.preName
        /\ model = lastSet.preModel

\* C3: set_model(X) right after set_model(X) constructs no object, calls no
\* restore and leaves the slot's object and the recorded name unchanged.
C3_SameNameNoReload ==
    (lastSet.op = "set_model" /\ lastSet.prevArg = lastSet.arg) =>
        /\ ~lastSet.instantiated
        /\ ~lastSet.restored
        /\ model = lastSet.preModel
        /\ model_name = lastSet.preName
        /\ nextId = lastSet.preNextId
        /\ heap = lastSet.preHeap

\* the second of two set_model(X) calls, on a wrapper that serves X
C3_Witness ==
    /\ lastSet.op = "set_model"
    /\ lastSet.prevArg = lastSet.arg
    /\ lastSet.outcome = "ok"
    /\ model # NoneId
    /\ heap[model].loaded
    /\ heap[model].cls = lastSet.arg

\* C4: the object in the slot was built for the variant whose name is
\* recorded (no blended state), in every reachable state.
C4_NameMatchesInstance ==
    model # NoneId => heap[model].cls = model_name

\* C11: recommend on a wrapper on which set_model was never called fails
\* with the no-model-loaded error and is delegated to no object.
C11_NeverSetNotLoaded ==
    (lastSet.op = "none" /\ last.op = "recommend") =>
        /\ last.outcome = "NoModelLoaded"
        /\ last.delegate = NoneId

\* recommend called on the wrapper as constructed
C11_Witness ==
    /\ lastSet.op = "none"
    /\ last.op = "recommend"
    /\ model = NoneId
    /\ model_name = NoName

\* C12: recommend on a wrapper with a recorded name and an empty slot fails
\* with an error other than the no-model-loaded error of a wrapper on which
\* no model was ever set.
C12_DistinctInstantiationError ==
    (last.op = "recommend" /\ last.preModel = NoneId
                           /\ last.preName # NoName) =>
        /\ last.outcome # "delegated"
        /\ last.outcome # "NoModelLoaded"

\* the last set_model call asked for a name other than the recorded one
SwitchCall ==
    /\ lastSet.op = "set_model"
    /\ lastSet.arg # lastSet.preName

\* C13: set_model with a name that is not the recorded one and not in the
\* registry fails with KeyError, whether or not a checkpoint file of that
\* name exists, and constructs and restores no object.
C13_UnregisteredKeyError ==
    (SwitchCall /\ lastSet.arg \notin model_to_cls(neuralAvailable)) =>
        /\ lastSet.outcome = "KeyError"
        /\ ~lastSet.instantiated
        /\ ~lastSet.restored
        /\ model = lastSet.preModel
        /\ heap = lastSet.preHeap
        /\ nextId = lastSet.preNextId

\* an unregistered name whose checkpoint file exists, on a serving wrapper
C13_Witness ==
    /\ SwitchCall
    /\ lastSet.arg \notin model_to_cls(neuralAvailable)
    /\ lastSet.argFile = "ok"
    /\ lastSet.preModel # NoneId
    /\ lastSet.outcome = "KeyError"

\* C14: set_model with a registered name whose checkpoint file is missing
\* fails with FileNotFoundError before any object is constructed, and calls
\* no restore.
C14_MissingCheckpointBeforeInstantiate ==
    ( /\ SwitchCall
      /\ lastSet.arg \in model_to_cls(neuralAvailable)
      /\ lastSet.argFile = "missing" )
    => /\ lastSet.outcome = "FileNotFoundError"
       /\ ~lastSet.instantiated
       /\ ~lastSet.restored

----------------------------------------------------------------------------
(* The serving process: api/api.py runs one handler per request thread on   *)
(* the module-level wrapper; a thread switch can fall between any two       *)
(* statements of set_model and recommend.                                   *)

Threads == 1..NumThreads

\* the model names the handler lets through (valid_models)
valid_models == model_to_ckpt

\* the model names the requests of a behaviour are drawn from
ConcNames == {"EASE", "NeuralMF"}

NoObs ==
    [delegate |-> NoneId, loaded |-> FALSE, cls |-> NoName, name |-> NoName,
     interleaved |-> FALSE, outcome |-> "none"]

\* positions of a thread inside set_model, after the name comparison and
\* before the call returns or raises
InSetModel == {"L19", "L22", "L25", "L33", "L40"}

InitConc ==
    /\ wrapperInit
    /\ \A n \in model_to_ckpt \ ConcNames : files[n] = "missing"
    /\ recInit
    /\ pc = [t \in Threads |-> "idle"]
    /\ req = [t \in Threads |-> NoName]
    /\ obs = [t \in Threads |-> NoObs]

Goto(t, l) == pc' = [pc EXCEPT ![t] = l]

Raise(t, e) ==
    /\ pc' = [pc EXCEPT ![t] = "idle"]
    /\ obs' = [obs EXCEPT ![t] = [NoObs EXCEPT !.outcome = e]]

\* api.py line 71: a request for model n reaches wrapper.set_model(n)
Begin(t, n) ==
    /\ pc[t] = "idle"
    /\ nextId + Cardinality({u \in Threads :
                                pc[u] \in {"L17", "L19", "L22", "L25"}})
          <= MaxInst
    /\ req' = [req EXCEPT ![t] = n]
    /\ obs' = [obs EXCEPT ![t] = NoObs]
    /\ Goto(t, "L17")
    /\ UNCHANGED <<wrapperVars, last, lastSet, recVars>>

\* recommender.py line 17: if self.model_name != new_model
L17(t) ==
    /\ pc[t] = "L17"
    /\ IF model_name # req[t] THEN Goto(t, "L19") ELSE Goto(t, "R47")
    /\ UNCHANGED <<wrapperVars, last, lastSet, req, obs, recVars>>

\* line 19: self.model_name = new_model
L19(t) ==
    /\ pc[t] = "L19"
    /\ model_name' = req[t]
    /\ Goto(t, "L22")
    /\ UNCHANGED <<model, heap, nextId, files, neuralAvailable, last, lastSet,
                   req, obs, recVars>>

\* lines 22-23: registry check
L22(t) ==
    /\ pc[t] = "L22"
    /\ IF req[t] \notin model_to_cls(neuralAvailable)
       THEN Raise(t, "KeyError")
       ELSE Goto(t, "L25") /\ UNCHANGED obs
    /\ UNCHANGED <<wrapperVars, last, lastSet, req, recVars>>

\* line 25: self.model = model_to_cls[new_model]()
L25(t) ==
    /\ pc[t] = "L25"
    /\ model' = nextId
    /\ heap' = (nextId :> NewInstance(req[t]))
    /\ nextId' = nextId + 1
    /\ Goto(t, "L33")
    /\ UNCHANGED <<model_name, files, neuralAvailable, last, lastSet, req, obs,
                   recVars>>

\* lines 28-38: checkpoint_path = model_to_ckpt[new_model], existence check
L33(t) ==
    /\ pc[t] = "L33"
    /\ IF files[req[t]] = "missing"
       THEN Raise(t, "FileNotFoundError")
       ELSE Goto(t, "L40") /\ UNCHANGED obs
    /\ UNCHANGED <<wrapperVars, last, lastSet, req, recVars>>

\* line 40: self.model.restore(checkpoint_path), on the object the slot
\* holds when the statement runs
L40(t) ==
    /\ pc[t] = "L40"
    /\ LET r == RestoreOf(heap[model], req[t], files) IN
       /\ heap' = [heap EXCEPT ![model] = r.obj]
       /\ IF r.outcome = "ok"
          THEN Goto(t, "R47") /\ UNCHANGED obs
          ELSE Raise(t, r.outcome)
    /\ UNCHANGED <<model_name, model, nextId, files, neuralAvailable, last,
                   lastSet, req, recVars>>

\* line 47: if self.model is None
R47(t) ==
    /\ pc[t] = "R47"
    /\ IF model = NoneId
       THEN Raise(t, "NoModelLoaded")
       ELSE Goto(t, "R50") /\ UNCHANGED obs
    /\ UNCHANGED <<wrapperVars, last, lastSet, req, recVars>>

\* line 50: if self.model_name is None
R50(t) ==
    /\ pc[t] = "R50"
    /\ IF model_name = NoName
       THEN Raise(t, "NameNotSet")
       ELSE Goto(t, "R59") /\ UNCHANGED obs
    /\ UNCHANGED <<wrapperVars, last, lastSet, req, recVars>>

\* line 59: self.model.recommend(user_item_ids); the thread records the
\* object it delegated to, whether that object had completed restore, its
\* class, the recorded name, and whether another thread was inside set_model
R59(t) ==
    /\ pc[t] = "R59"
    /\ obs' = [obs EXCEPT ![t] =
                 [delegate |-> model,
                  loaded |-> heap[model].loaded,
                  cls |-> heap[model].cls,
                  name |-> model_name,
                  interleaved |-> \E u \in Threads \ {t} : pc[u] \in InSetModel,
                  outcome |-> "delegated"]]
    /\ Goto(t, "idle")
    /\ UNCHANGED <<wrapperVars, last, lastSet, req, recVars>>

NextConc ==
    \/ \E t \in Threads : \E n \in valid_models \cap ConcNames : Begin(t, n)
    \/ \E t \in Threads : L17(t)
    \/ \E t \in Threads : L19(t)
    \/ \E t \in Threads : L22(t)
    \/ \E t \in Threads : L25(t)
    \/ \E t \in Threads : L33(t)
    \/ \E t \in Threads : L40(t)
    \/ \E t \in Threads : R47(t)
    \/ \E t \in Threads : R50(t)
    \/ \E t \in Threads : R59(t)

SpecConc == InitConc /\ [][NextConc]_vars

\* C5: a recommend that runs while a set_model call of another request is in
\* flight is delegated only to an object that has completed restore and
\* that belongs to the variant whose name is recorded.
C5_RecommendSeesInstalledModel ==
    \A t \in Threads :
        (obs[t].outcome = "delegated" /\ obs[t].interleaved) =>
            /\ obs[t].loaded
            /\ obs[t].cls = obs[t].name

----------------------------------------------------------------------------
(* One NeuralMF / DeepFM object: api/recommend/models/NeuralMF.py, DeepFM.py *)
(* (fit, predict, recommend, save and restore are the same code in both     *)
(* classes; DeepFM calls hidden_dims deep_hidden_dims).                     *)
(* The network is modelled by what the scoring loops read of it: the score  *)
(* it gives each item for user 0, one of MaxScore values (ties can happen), *)
(* and from it the score for the other users (Score).                       *)

\* float('-inf'): below every score
NegInf == 0

\* batch_size of the scoring loop
batch_size == 1000

Items(n) == 0..(n - 1)

\* score vectors of a network over n items
Nets(n) == [Items(n) -> 1..MaxScore]

\* the constructor's default hyperparameters
DefaultHyper ==
    [embedding_dim |-> 64, hidden_dims |-> <<128, 64>>, dropout |-> "0.2"]

\* hyperparameters an object is constructed with: the defaults, or others
Hypers ==
    {DefaultHyper,
     [embedding_dim |-> 32, hidden_dims |-> <<64>>, dropout |-> "0.5"]}

\* contents of the checkpoint files recommend is run on: models of one
\* user with the default hyperparameters
Checkpoints ==
    UNION {[model_state_dict : Nets(n), num_users : {1}, num_items : {n},
            embedding_dim : {DefaultHyper.embedding_dim},
            hidden_dims : {DefaultHyper.hidden_dims},
            dropout : {DefaultHyper.dropout}] : n \in 1..MaxItems}

\* item ids a context may carry: valid ones, a negative one, too large ones
CtxIds == (0 - 1)..MaxItems

Contexts == UNION {[1..n -> CtxIds] : n \in 0..MaxCtx}

\* NeuralMF(embedding_dim, hidden_dims, dropout) / DeepFM(...): num_users =
\* num_items = 0, model = None (net = <<>>), model_loaded = False
NewModelWith(cls, hp) ==
    [cls |-> cls, embedding_dim |-> hp.embedding_dim,
     hidden_dims |-> hp.hidden_dims, dropout |-> hp.dropout,
     num_users |-> 0, num_items |-> 0, net |-> <<>>,
     model_loaded |-> FALSE, training |-> FALSE]

\* NeuralMF() / DeepFM(): the object model_to_cls[name]() creates
NewModel(cls) == NewModelWith(cls, DefaultHyper)

\* restore that keeps the hyperparameters the object was constructed with
restore_KeepHyper(o, ck) ==
    [o EXCEPT !.num_users = ck.num_users, !.num_items = ck.num_items,
              !.net = ck.model_state_dict,
              !.training = FALSE, !.model_loaded = TRUE]

\* restore(ckpt) on an existing, readable checkpoint ck of the object's
\* class: sizes and hyperparameters are taken from the file, the network is
\* rebuilt from them, the weights are loaded, eval(), model_loaded = True
restore(o, ck) ==
    [o EXCEPT !.num_users = ck.num_users, !.num_items = ck.num_items,
              !.embedding_dim = ck.embedding_dim,
              !.hidden_dims = ck.hidden_dims, !.dropout = ck.dropout,
              !.net = ck.model_state_dict,
              !.training = FALSE, !.model_loaded = TRUE]

\* number of forward passes of the scoring loop over n items
Batches(n) == (n + batch_size - 1) \div batch_size

\* numpy index normalisation in scores[user_context]: negative ids count
\* from the end
NormIndex(c, n) == IF c < 0 THEN c + n ELSE c

IndexOk(c, n) == c >= 0 - n /\ c < n

\* scores[user_context] = float('-inf')
Mask(scores, user_context, n) ==
    [i \in Items(n) |->
        IF \E j \in 1..Len(user_context) : NormIndex(user_context[j], n) = i
        THEN NegInf ELSE scores[i]]

\* np.argpartition(-scores, top_k)[:top_k]: the index sets it can return
\* (top_k indices none of which scores below an index left out; which of
\* several tied indices are taken, and their order, is not specified)
ArgPartitionSets(scores, n, top_k) ==
    {S \in SUBSET Items(n) :
        /\ Cardinality(S) = top_k
        /\ \A i \in S : \A j \in Items(n) \ S : scores[i] >= scores[j]}

RECURSIVE ArgSortOrders(_, _)
\* top_k_indices[np.argsort(-scores[top_k_indices])]: the orders it can
\* return, by descending score, tied indices in any order (the default sort
\* is not stable and the order it is handed is not specified)
ArgSortOrders(S, scores) ==
    IF S = {} THEN {<<>>}
    ELSE LET top == {i \in S : \A j \in S : scores[i] >= scores[j]} IN
         UNION {{<<i>> \o q : q \in ArgSortOrders(S \ {i}, scores)} : i \in top}

\* the slice taken one index too long
TopK_OffByOne(scores, n, top_k) ==
    IF top_k >= n
    THEN {[outcome |-> "ValueError", result |-> <<>>]}
    ELSE {[outcome |-> "ok", result |-> q] :
            q \in UNION {ArgSortOrders(S, scores) :
                           S \in ArgPartitionSets(scores, n,
                                    IF top_k + 1 <= n THEN top_k + 1 ELSE n)}}

\* lines 233-237: the top-k selection; argpartition raises ValueError when
\* kth = top_k is not below the length of the array
TopK(scores, n, top_k) ==
    IF top_k >= n
    THEN {[outcome |-> "ValueError", result |-> <<>>]}
    ELSE {[outcome |-> "ok", result |-> q] :
            q \in UNION {ArgSortOrders(S, scores) :
                           S \in ArgPartitionSets(scores, n, top_k)}}

\* recommend without the early return on an empty context
recommend_NoEmptyCheck(o, user_context, top_k) ==
    IF ~o.model_loaded
    THEN {[outcome |-> "NotLoaded", result |-> <<>>, forward |-> 0, obj |-> o]}
    ELSE
      LET o1 == [o EXCEPT !.training = FALSE]
          n == o.num_items
          fw == Batches(n)
      IN
      IF \E j \in 1..Len(user_context) : ~IndexOk(user_context[j], n)
      THEN {[outcome |-> "IndexError", result |-> <<>>, forward |-> fw,
             obj |-> o1]}
      ELSE {[outcome |-> r.outcome, result |-> r.result, forward |-> fw,
             obj |-> o1] : r \in TopK(Mask(o.net, user_context, n), n, top_k)}

\* recommend with the empty-context return before the loaded check
recommend_EmptyFirst(o, user_context, top_k) ==
    IF Len(user_context) = 0
    THEN {[outcome |-> "ok", result |-> <<>>, forward |-> 0, obj |-> o]}
    ELSE IF ~o.model_loaded
    THEN {[outcome |-> "NotLoaded", result |-> <<>>, forward |-> 0, obj |-> o]}
    ELSE
      LET o1 == [o EXCEPT !.training = FALSE]
          n == o.num_items
          fw == Batches(n)
      IN
      IF \E j \in 1..Len(user_context) : ~IndexOk(user_context[j], n)
      THEN {[outcome |-> "IndexError", result |-> <<>>, forward |-> fw,
             obj |-> o1]}
      ELSE {[outcome |-> r.outcome, result |-> r.result, forward |-> fw,
             obj |-> o1] : r \in TopK(Mask(o.net, user_context, n), n, top_k)}

\* NeuralMF.recommend / DeepFM.recommend(user_context, top_k): the outcomes
\* the call can have: how it ends, the list returned, the number of forward
\* passes it ran, the object after the call
recommend(o, user_context, top_k) ==
    IF ~o.model_loaded
    THEN {[outcome |-> "NotLoaded", result |-> <<>>, forward |-> 0, obj |-> o]}
    ELSE IF Len(user_context) = 0
    THEN {[outcome |-> "ok", result |-> <<>>, forward |-> 0, obj |-> o]}
    ELSE
      \* self.model.eval(), then the scoring loop over all items
      LET o1 == [o EXCEPT !.training = FALSE]
          n == o.num_items
          fw == Batches(n)
      IN
      IF \E j \in 1..Len(user_context) : ~IndexOk(user_context[j], n)
      THEN {[outcome |-> "IndexError", result |-> <<>>, forward |-> fw,
             obj |-> o1]}
      ELSE {[outcome |-> r.outcome, result |-> r.result, forward |-> fw,
             obj |-> o1] : r \in TopK(Mask(o.net, user_context, n), n, top_k)}

Rows(u) == 0..(u - 1)

Min(a, b) == IF a <= b THEN a ELSE b

Cells(u, n) == Rows(u) \X Items(n)

\* rating matrices: the shape and the cells that hold a nonzero entry
\* (no cell, one cell, or all cells)
Matrices ==
    UNION {[rows : {u}, cols : {n},
            nz : {{}, Cells(u, n)} \cup {{c} : c \in Cells(u, n)}]
           : u \in 1..MaxRows, n \in 1..MaxCols}

NoMatrix == [rows |-> 0, cols |-> 0, nz |-> {}]

\* self.model(user, item): the score of the network for user u and item i
Score(net, u, i) == ((net[i] - 1 + u) % MaxScore) + 1

\* predict without the masking of the entries present in the matrix
predict_NoMask(o, R) ==
    IF ~o.model_loaded
    THEN [outcome |-> "NotLoaded", scores |-> <<>>, obj |-> o]
    ELSE
      LET o1 == [o EXCEPT !.training = FALSE] IN
      IF R.rows > o.num_users \/ R.cols > o.num_items
      THEN [outcome |-> "IndexError", scores |-> <<>>, obj |-> o1]
      ELSE [outcome |-> "ok",
            scores |-> [c \in Cells(R.rows, R.cols) |->
                          Score(o.net, c[1], c[2])],
            obj |-> o1]

\* NeuralMF.predict / DeepFM.predict(rating_matrix): the loaded check, then
\* eval() and one score per cell of the matrix's shape (the embedding
\* lookup of a row or column the network has no entry for raises
\* IndexError; the shape is not compared with num_users / num_items), then
\* the cells present in the matrix are set to -inf
predict(o, R) ==
    IF ~o.model_loaded
    THEN [outcome |-> "NotLoaded", scores |-> <<>>, obj |-> o]
    ELSE
      LET o1 == [o EXCEPT !.training = FALSE] IN
      IF R.rows > o.num_users \/ R.cols > o.num_items
      THEN [outcome |-> "IndexError", scores |-> <<>>, obj |-> o1]
      ELSE [outcome |-> "ok",
            scores |-> [c \in Cells(R.rows, R.cols) |->
                          IF c \in R.nz THEN NegInf
                          ELSE Score(o.net, c[1], c[2])],
            obj |-> o1]

\* save_filename: the class name and embedding_dim
save_filename(o) == <<o.cls, o.embedding_dim>>

\* file names of a checkpoint directory
Filenames == {<<c, hp.embedding_dim>> : c \in NeuralNames, hp \in Hypers}

\* the dictionary save writes
SaveContent(o) ==
    [model_state_dict |-> o.net, num_users |-> o.num_users,
     num_items |-> o.num_items, embedding_dim |-> o.embedding_dim,
     hidden_dims |-> o.hidden_dims, dropout |-> o.dropout]

\* NeuralMF.save / DeepFM.save(save_dir): self.model.state_dict() raises
\* AttributeError while model is None; otherwise the file save_filename of
\* the directory is (over)written
save(o) ==
    IF DOMAIN o.net = {}
    THEN [outcome |-> "AttributeError", name |-> save_filename(o),
          wrote |-> FALSE]
    ELSE [outcome |-> "ok", name |-> save_filename(o), wrote |-> TRUE]

\* the weights of a network just constructed
InitNet(n) == [i \in Items(n) |-> 1]

\* weights training can yield for n items: two of the networks
TrainedNets(n) ==
    {[i \in Items(n) |-> ((i + s) % MaxScore) + 1] : s \in {1, MaxScore}}

\* shape of a training matrix and the weights training on it yields
TrainData ==
    UNION {[num_users : 1..MaxRows, num_items : {n},
            weights : TrainedNets(n)] : n \in 1..MaxCols}

\* fit that does not set model_loaded
fit_NoLoadedFlag(o, train) ==
    LET o1 == [o EXCEPT !.num_users = train.num_users,
                        !.num_items = train.num_items,
                        !.net = InitNet(train.num_items),
                        !.training = TRUE]
        o2 == [o1 EXCEPT !.net = train.weights]
    IN {[outcome |-> "RuntimeError", obj |-> o1, saved |-> o1,
         wrote |-> FALSE],
        [outcome |-> "ok", obj |-> [o2 EXCEPT !.training = FALSE],
         saved |-> o2, wrote |-> save(o2).wrote]}

\* NeuralMF.fit / DeepFM.fit(train_matrix, save_path): the outcomes of the
\* call. num_users / num_items are taken from the shape, a new network is
\* built and put in train mode, the training loop runs (a pass of it may
\* raise), self.save(save_path) writes the checkpoint of the object as it
\* is then (saved), and only then model_loaded = True and eval()
fit(o, train) ==
    LET o1 == [o EXCEPT !.num_users = train.num_users,
                        !.num_items = train.num_items,
                        !.net = InitNet(train.num_items),
                        !.training = TRUE]
        o2 == [o1 EXCEPT !.net = train.weights]
    IN {[outcome |-> "RuntimeError", obj |-> o1, saved |-> o1,
         wrote |-> FALSE],
        [outcome |-> "ok",
         obj |-> [o2 EXCEPT !.model_loaded = TRUE, !.training = FALSE],
         saved |-> o2, wrote |-> save(o2).wrote]}

\* the directory after object o has written its checkpoint file (by: the
\* object as it was when it wrote the file)
Write(d, o) ==
    [q \in DOMAIN d \cup {save_filename(o)} |->
        IF q = save_filename(o) THEN [content |-> SaveContent(o), by |-> o]
        ELSE d[q]]

\* restore that marks the object not loaded before it looks for the file
restore_from_ResetFirst(o, ckpt, d) ==
    IF ckpt \notin DOMAIN d
    THEN [outcome |-> "FileNotFoundError",
          obj |-> [o EXCEPT !.model_loaded = FALSE]]
    ELSE [outcome |-> "ok", obj |-> restore(o, d[ckpt].content)]

\* NeuralMF.restore / DeepFM.restore(ckpt) on directory d: the existence
\* check is the first statement, before anything is assigned
restore_from(o, ckpt, d) ==
    IF ckpt \notin DOMAIN d
    THEN [outcome |-> "FileNotFoundError", obj |-> o]
    ELSE [outcome |-> "ok", obj |-> restore(o, d[ckpt].content)]

NoRec ==
    [op |-> "none", ctx |-> <<>>, top_k |-> 1, outcome |-> "none",
     result |-> <<>>, forward |-> 0, pre |-> NewModel(NoName),
     matrix |-> NoMatrix, scores |-> <<>>, path |-> <<>>, wrote |-> FALSE]

\* an empty checkpoint directory
EmptyDir == [q \in {} |-> q]

\* the wrapper of a process that only runs one model object
wrapperIdle ==
    /\ wrapperInit
    /\ neuralAvailable
    /\ \A n \in model_to_ckpt : files[n] = "missing"

InitRec ==
    /\ wrapperIdle
    /\ threadInit
    /\ \E cls \in NeuralNames : inst = NewModel(cls)
    /\ rec = NoRec
    /\ disk = EmptyDir
    /\ data = <<>>
    /\ pipe = <<>>
    /\ web = <<>>

\* inst.restore(path) where the file holds checkpoint ck; the calls on the
\* object are made one after the other, each after the caller has taken
\* the result of the one before (RecReturn)
RecRestore(ck) ==
    /\ rec.op = "none"
    /\ inst' = restore(inst, ck)
    /\ rec' = [NoRec EXCEPT !.op = "restore", !.outcome = "ok", !.pre = inst]
    /\ UNCHANGED <<wrapperVars, last, lastSet, threadVars,
                   sysVars, disk, data>>

\* inst.recommend(user_context, top_k)
RecRecommend(user_context, top_k) ==
    /\ rec.op = "none"
    /\ \E r \in recommend(inst, user_context, top_k) :
          /\ inst' = r.obj
          /\ rec' = [NoRec EXCEPT !.op = "recommend", !.ctx = user_context,
                                  !.top_k = top_k, !.outcome = r.outcome,
                                  !.result = r.result,
                                  !.forward = r.forward, !.pre = inst]
    /\ UNCHANGED <<wrapperVars, last, lastSet, threadVars,
                   sysVars, disk, data>>

\* inst.predict(rating_matrix)
RecPredict(rating_matrix) ==
    /\ rec.op = "none"
    /\ LET r == predict(inst, rating_matrix) IN
          /\ inst' = r.obj
          /\ rec' = [NoRec EXCEPT !.op = "predict",
                                  !.matrix = rating_matrix,
                                  !.outcome = r.outcome,
                                  !.scores = r.scores, !.pre = inst]
    /\ UNCHANGED <<wrapperVars, last, lastSet, threadVars,
                   sysVars, disk, data>>

\* the caller takes the result (or the exception) of the call
RecReturn ==
    /\ rec.op # "none"
    /\ rec' = NoRec
    /\ UNCHANGED <<inst, wrapperVars, last, lastSet, threadVars,
                   sysVars, disk, data>>

NextRec ==
    \/ \E ck \in Checkpoints : RecRestore(ck)
    \/ \E c \in Contexts : \E k \in 1..MaxTopK : RecRecommend(c, k)
    \/ \E R \in Matrices : RecPredict(R)
    \/ RecReturn

SpecRec == InitRec /\ [][NextRec]_vars

----------------------------------------------------------------------------
(* One model object over a checkpoint directory (SpecFit): the calls          *)
(* fit_offline.py makes on it (fit, predict, save), restore from the         *)
(* directory, and a new object taking the place of the old one.              *)

InitFit ==
    /\ wrapperIdle
    /\ threadInit
    /\ \E cls \in NeuralNames : \E hp \in Hypers :
          inst = NewModelWith(cls, hp)
    /\ rec = NoRec
    /\ disk = EmptyDir
    /\ data \in TrainData
    /\ pipe = <<>>
    /\ web = <<>>

\* inst.fit(train_matrix, save_path)
FitCall ==
    /\ rec.op = "none"
    /\ \E r \in fit(inst, data) :
          /\ inst' = r.obj
          /\ disk' = IF r.wrote THEN Write(disk, r.saved) ELSE disk
          /\ rec' = [NoRec EXCEPT !.op = "fit", !.outcome = r.outcome,
                                  !.path = save_filename(r.saved),
                                  !.wrote = r.wrote, !.pre = inst]
    /\ UNCHANGED <<wrapperVars, last, lastSet, threadVars, sysVars, data>>

\* inst.save(save_dir)
SaveCall ==
    /\ rec.op = "none"
    /\ LET r == save(inst) IN
          /\ disk' = IF r.wrote THEN Write(disk, inst) ELSE disk
          /\ rec' = [NoRec EXCEPT !.op = "save", !.outcome = r.outcome,
                                  !.path = r.name, !.wrote = r.wrote,
                                  !.pre = inst]
    /\ UNCHANGED <<inst, wrapperVars, last, lastSet, threadVars,
                   sysVars, data>>

\* inst.restore(ckpt)
RestoreCall(ckpt) ==
    /\ rec.op = "none"
    /\ LET r == restore_from(inst, ckpt, disk) IN
          /\ inst' = r.obj
          /\ rec' = [NoRec EXCEPT !.op = "restore", !.outcome = r.outcome,
                                  !.path = ckpt, !.pre = inst]
    /\ UNCHANGED <<wrapperVars, last, lastSet, threadVars,
                   sysVars, disk, data>>

\* model_cls(...): a new object of the class takes the place of inst
NewObject(hp) ==
    /\ rec.op = "none"
    /\ inst # NewModelWith(inst.cls, hp)
    /\ inst' = NewModelWith(inst.cls, hp)
    /\ UNCHANGED <<rec, wrapperVars, last, lastSet, threadVars,
                   sysVars, disk, data>>

NextFit ==
    \/ FitCall
    \/ SaveCall
    \/ \E ckpt \in Filenames : RestoreCall(ckpt)
    \/ \E R \in Matrices : RecPredict(R)
    \/ \E hp \in Hypers : NewObject(hp)
    \/ RecReturn

SpecFit == InitFit /\ [][NextFit]_vars

----------------------------------------------------------------------------
(* load_rating_matrix_from_mongodb: api/fit_offline.py (SpecLoad) *)

\* external ids (_id) of users and movies
ExtIds == 0..MaxId

\* the interactions collection: documents with a user_id and a movie_id,
\* which need not be ids of the users / movies collections
Interactions ==
    UNION {[1..n -> [user_id : ExtIds, movie_id : ExtIds]] : n \in 0..MaxLog}

RECURSIVE sorted(_)
\* sorted(collection.distinct('_id'))
sorted(S) ==
    IF S = {} THEN <<>>
    ELSE LET m == CHOOSE x \in S : \A y \in S : x <= y
         IN <<m>> \o sorted(S \ {m})

\* the mapping with the positions counted from 1
id_to_idx_OneBased(ids) ==
    [x \in {ids[k] : k \in 1..Len(ids)} |->
        CHOOSE k \in 1..Len(ids) : ids[k] = x]

\* {id: idx for idx, id in enumerate(ids)}
id_to_idx(ids) ==
    [x \in {ids[k] : k \in 1..Len(ids)} |->
        (CHOOSE k \in 1..Len(ids) : ids[k] = x) - 1]

\* lines 62-69: the interactions whose user and movie are both known
KnownInteractions(log, uidx, midx) ==
    SelectSeq(log, LAMBDA e :
        e.user_id \in DOMAIN uidx /\ e.movie_id \in DOMAIN midx)

RECURSIVE SumAt(_, _, _, _, _)
\* sum of ratings[k] over the positions k..Len with (users[k], items[k]) = c
SumAt(ratings, users, items, c, k) ==
    IF k > Len(ratings) THEN 0
    ELSE (IF <<users[k], items[k]>> = c THEN ratings[k] ELSE 0)
         + SumAt(ratings, users, items, c, k + 1)

\* sp.csr_matrix((ratings, (users, items)), shape): the stored entries;
\* the values given for one cell are summed
csr_matrix(ratings, users, items, num_users, num_items) ==
    [rows |-> num_users, cols |-> num_items,
     val |-> [c \in {<<users[k], items[k]>> : k \in 1..Len(ratings)} |->
                SumAt(ratings, users, items, c, 1)]]

\* load_rating_matrix_from_mongodb() on the collections of db
load_rating_matrix_from_mongodb(db) ==
    LET user_ids == sorted(db.users)
        movie_ids == sorted(db.movies)
        user_id_to_idx == id_to_idx(user_ids)
        movie_id_to_idx == id_to_idx(movie_ids)
        kept == KnownInteractions(db.interactions, user_id_to_idx,
                                  movie_id_to_idx)
        users == [k \in 1..Len(kept) |-> user_id_to_idx[kept[k].user_id]]
        items == [k \in 1..Len(kept) |-> movie_id_to_idx[kept[k].movie_id]]
        ratings == [k \in 1..Len(kept) |-> 1]
    IN [user_id_to_idx |-> user_id_to_idx,
        movie_id_to_idx |-> movie_id_to_idx,
        rating_matrix |-> csr_matrix(ratings, users, items,
                                     Len(user_ids), Len(movie_ids))]

\* the databases the pipeline is run on
Databases ==
    [users : SUBSET ExtIds, movies : SUBSET ExtIds,
     interactions : Interactions]

\* the processes of the other specifications are idle
othersIdle ==
    /\ wrapperIdle
    /\ threadInit
    /\ inst = [cls |-> NoName]
    /\ rec = [op |-> "none"]
    /\ disk = <<>>
    /\ data = <<>>

InitLoad ==
    /\ othersIdle
    /\ web = <<>>
    /\ \E db \in Databases : pipe = [pc |-> "start", db |-> db]

\* line 76: rating_matrix = load_rating_matrix_from_mongodb()
LoadRatingMatrix ==
    /\ pipe.pc = "start"
    /\ LET r == load_rating_matrix_from_mongodb(pipe.db) IN
          pipe' = [pc |-> "loaded", db |-> pipe.db,
                   user_id_to_idx |-> r.user_id_to_idx,
                   movie_id_to_idx |-> r.movie_id_to_idx,
                   rating_matrix |-> r.rating_matrix]
    /\ UNCHANGED <<wrapperVars, last, lastSet, threadVars, inst, rec, disk,
                   data, web>>

NextLoad == LoadRatingMatrix

SpecLoad == InitLoad /\ [][NextLoad]_vars

----------------------------------------------------------------------------
(* The offline pipeline after the matrix is loaded: api/fit_offline.py,     *)
(* lines 77-100 (SpecPipe). split_train_test, extract_top_k and evaluate    *)
(* (recommend/utils.py, recommend/evaluate.py) are modelled by contract.    *)

\* the rating matrices the loader hands to the pipeline (at least one user
\* and one movie), as shape and nonzero cells
LoadedMatrices ==
    {[rows |-> r.rows, cols |-> r.cols, nz |-> DOMAIN r.val] :
        r \in {load_rating_matrix_from_mongodb(db).rating_matrix :
                 db \in {d \in Databases : d.users # {} /\ d.movies # {}}}}

\* split_train_test(rating_matrix, test_ratio, shape): the held-out cells go
\* to the test matrix and are removed from the train matrix; both keep the
\* shape
split_train_test(R) ==
    {[train |-> [R EXCEPT !.nz = R.nz \ T], test |-> [R EXCEPT !.nz = T]] :
        T \in SUBSET R.nz}

\* extract_top_k(prediction, k): per row, the indices of the k highest
\* scores (all of them when the row has no more than k)
extract_top_k(prediction, R, k) ==
    {t \in [Rows(R.rows) -> SUBSET Items(R.cols)] :
        \A u \in Rows(R.rows) :
            t[u] \in ArgPartitionSets([i \in Items(R.cols) |->
                                          prediction[<<u, i>>]],
                                      R.cols, Min(k, R.cols))}

NoMetric == [hits |-> 0, relevant |-> 0]

\* evaluate(topk, test_matrix, k): hits over held-out entries; the
\* division raises ZeroDivisionError when the test matrix has no entry
evaluate(topk, test) ==
    IF test.nz = {}
    THEN [outcome |-> "ZeroDivisionError", scores |-> NoMetric]
    ELSE [outcome |-> "ok",
          scores |-> [hits |-> Cardinality({c \in test.nz :
                                              c[2] \in topk[c[1]]}),
                      relevant |-> Cardinality(test.nz)]]

\* the evaluation step without the except clause
TryEvaluate_NoExcept(topk, test) ==
    LET e == evaluate(topk, test) IN
    IF e.outcome = "ok"
    THEN [outcome |-> "ok", reported |-> TRUE, scores |-> e.scores]
    ELSE [outcome |-> e.outcome, reported |-> FALSE, scores |-> NoMetric]

\* lines 92-96: try: scores = evaluate(...); print(scores)
\*              except ZeroDivisionError: print("Skipping evaluation")
TryEvaluate(topk, test) ==
    LET e == evaluate(topk, test) IN
    IF e.outcome = "ok"
    THEN [outcome |-> "ok", reported |-> TRUE, scores |-> e.scores]
    ELSE IF e.outcome = "ZeroDivisionError"
    THEN [outcome |-> "ok", reported |-> FALSE, scores |-> NoMetric]
    ELSE [outcome |-> e.outcome, reported |-> FALSE, scores |-> NoMetric]

NoPipe(R, k) ==
    [pc |-> "split", k |-> k, rating_matrix |-> R, train |-> NoMatrix,
     test |-> NoMatrix, prediction |-> <<>>, topk |-> <<>>,
     reported |-> FALSE, scores |-> NoMetric, error |-> "none",
     saved |-> FALSE]

\* lines 76-81: the matrix is loaded, args.k is parsed, model = model_cls()
InitPipe ==
    /\ wrapperIdle
    /\ threadInit
    /\ \E cls \in NeuralNames : inst = NewModel(cls)
    /\ rec = NoRec
    /\ disk = EmptyDir
    /\ data = <<>>
    /\ web = <<>>
    /\ \E R \in LoadedMatrices : \E k \in 1..MaxTopK : pipe = NoPipe(R, k)

pipeFrame == UNCHANGED <<wrapperVars, last, lastSet, threadVars, rec, data, web>>

\* line 79: train_matrix, test_matrix = split_train_test(...)
PipeSplit ==
    /\ pipe.pc = "split"
    /\ \E sp \in split_train_test(pipe.rating_matrix) :
          pipe' = [pipe EXCEPT !.pc = "fit", !.train = sp.train,
                               !.test = sp.test]
    /\ UNCHANGED <<inst, disk>>
    /\ pipeFrame

\* line 84: model.fit(train_matrix, save_path = args.save_dir); an
\* exception ends the process
PipeFit ==
    /\ pipe.pc = "fit"
    /\ \E w \in TrainedNets(pipe.train.cols) :
       \E r \in fit(inst, [num_users |-> pipe.train.rows,
                            num_items |-> pipe.train.cols, weights |-> w]) :
          /\ inst' = r.obj
          /\ disk' = IF r.wrote THEN Write(disk, r.saved) ELSE disk
          /\ pipe' = IF r.outcome = "ok"
                     THEN [pipe EXCEPT !.pc = "predict"]
                     ELSE [pipe EXCEPT !.pc = "failed", !.error = r.outcome]
    /\ pipeFrame

\* line 88: prediction = model.predict(train_matrix)
PipePredict ==
    /\ pipe.pc = "predict"
    /\ LET r == predict(inst, pipe.train) IN
          /\ inst' = r.obj
          /\ pipe' = IF r.outcome = "ok"
                     THEN [pipe EXCEPT !.pc = "topk", !.prediction = r.scores]
                     ELSE [pipe EXCEPT !.pc = "failed", !.error = r.outcome]
    /\ UNCHANGED disk
    /\ pipeFrame

\* line 89: topk = extract_top_k(prediction, args.k)
PipeTopK ==
    /\ pipe.pc = "topk"
    /\ \E t \in extract_top_k(pipe.prediction, pipe.train, pipe.k) :
          pipe' = [pipe EXCEPT !.pc = "evaluate", !.topk = t]
    /\ UNCHANGED <<inst, disk>>
    /\ pipeFrame

\* lines 92-96: the evaluation step
PipeEvaluate ==
    /\ pipe.pc = "evaluate"
    /\ LET r == TryEvaluate(pipe.topk, pipe.test) IN
          pipe' = IF r.outcome = "ok"
                  THEN [pipe EXCEPT !.pc = "save", !.reported = r.reported,
                                    !.scores = r.scores]
                  ELSE [pipe EXCEPT !.pc = "failed", !.error = r.outcome]
    /\ UNCHANGED <<inst, disk>>
    /\ pipeFrame

\* line 99: model.save(args.save_dir), then the script ends
PipeSave ==
    /\ pipe.pc = "save"
    /\ LET r == save(inst) IN
          /\ disk' = IF r.wrote THEN Write(disk, inst) ELSE disk
          /\ pipe' = IF r.outcome = "ok"
                     THEN [pipe EXCEPT !.pc = "done", !.saved = r.wrote]
                     ELSE [pipe EXCEPT !.pc = "failed", !.error = r.outcome]
    /\ UNCHANGED inst
    /\ pipeFrame

NextPipe ==
    \/ PipeSplit
    \/ PipeFit
    \/ PipePredict
    \/ PipeTopK
    \/ PipeEvaluate
    \/ PipeSave

SpecPipe == InitPipe /\ [][NextPipe]_vars

----------------------------------------------------------------------------
(* The backend endpoint POST /recommend: backend/run.py, lines 44-182       *)
(* (SpecBackend). One request: validation, the calls of the ML API with     *)
(* the outcome of each, the handling of the result.                        *)

\* max_retries of the retry loop
max_retries == 2

\* what the JSON body holds under 'context': no such key, a falsy value
\* other than [] (null, 0, ""), [], a truthy value that is not a list, a
\* list with an element int() rejects, a list of numbers
ContextKinds == {"absent", "falsy", "empty", "nonlist", "nonnumeric", "ints"}

\* what the body holds under 'model': no such key, a name of valid_models,
\* anything else
ModelKinds == {"absent", "valid", "invalid"}

\* the Authorization header: none, a token that decodes to a user, another
AuthKinds == {"none", "valid", "invalid"}

\* request bodies (extra: the body has a key other than the two)
Bodies == [context : ContextKinds, model : ModelKinds, extra : BOOLEAN]

\* how one requests.post(...) / raise_for_status() / response.json() ends
AttemptOutcomes ==
    {"ok", "Timeout", "ConnectionError", "RequestException", "Exception"}

\* the JSON a successful call returns: without 'result', with an empty
\* one, with a list of ids
ResKinds == {"no_result", "empty", "list"}

\* the validation without the test for the 'model' key
validate_NoModelKeyCheck(body) ==
    IF body.context = "absent" /\ body.model = "absent" /\ ~body.extra
    THEN "MISSING_DATA"
    ELSE IF body.context \in {"absent", "falsy", "empty"}
    THEN "MISSING_CONTEXT"
    ELSE IF body.context = "nonlist"
    THEN "INVALID_CONTEXT"
    ELSE IF body.context = "nonnumeric"
    THEN "INVALID_CONTEXT_FORMAT"
    ELSE IF body.model = "invalid"
    THEN "INVALID_MODEL"
    ELSE "ok"

\* lines 52-81: the checks of the body, in their order; each failure is a
\* 400 response
validate(body) ==
    IF body.context = "absent" /\ body.model = "absent" /\ ~body.extra
    THEN "MISSING_DATA"
    ELSE IF body.context \in {"absent", "falsy", "empty"}
    THEN "MISSING_CONTEXT"
    ELSE IF body.context = "nonlist"
    THEN "INVALID_CONTEXT"
    ELSE IF body.context = "nonnumeric"
    THEN "INVALID_CONTEXT_FORMAT"
    ELSE IF body.model = "absent"
    THEN "MISSING_MODEL"
    ELSE IF body.model = "invalid"
    THEN "INVALID_MODEL"
    ELSE "ok"

\* the retry loop retrying after every timeout and connection error
after_attempt_AlwaysRetry(attempt, outcome) ==
    IF outcome = "ok"
    THEN [pc |-> "handle", status |-> 0]
    ELSE IF outcome \in {"Timeout", "ConnectionError"}
    THEN IF attempt + 1 < max_retries
         THEN [pc |-> "call", status |-> 0]
         ELSE [pc |-> "handle", status |-> 0]
    ELSE IF outcome = "RequestException"
    THEN [pc |-> "done", status |-> 503]
    ELSE [pc |-> "done", status |-> 500]

\* lines 89-129: what follows attempt number attempt (from 0) that ended
\* in outcome: break, continue (the loop ends when the range is used up),
\* or a response; an exception that is no request error reaches the outer
\* handler (500)
after_attempt(attempt, outcome) ==
    IF outcome = "ok"
    THEN [pc |-> "handle", status |-> 0]
    ELSE IF outcome = "Timeout"
    THEN IF attempt < max_retries - 1
         THEN IF attempt + 1 < max_retries
              THEN [pc |-> "call", status |-> 0]
              ELSE [pc |-> "handle", status |-> 0]
         ELSE [pc |-> "done", status |-> 504]
    ELSE IF outcome = "ConnectionError"
    THEN IF attempt < max_retries - 1
         THEN IF attempt + 1 < max_retries
              THEN [pc |-> "call", status |-> 0]
              ELSE [pc |-> "handle", status |-> 0]
         ELSE [pc |-> "done", status |-> 503]
    ELSE IF outcome = "RequestException"
    THEN [pc |-> "done", status |-> 503]
    ELSE [pc |-> "done", status |-> 500]

\* lines 131-175: the handling of the ML API's answer res; reading res
\* when no attempt assigned it raises NameError (outer handler, 500)
handle_result(res, found, auth) ==
    IF res = "undefined" \/ res = "no_result"
    THEN [status |-> 500, saved |-> FALSE]
    ELSE IF res = "empty" \/ ~found
    THEN [status |-> 200, saved |-> FALSE]
    ELSE [status |-> 200, saved |-> (auth = "valid")]

NoRequest(body, auth) ==
    [pc |-> "validate", data |-> body, auth |-> auth, attempt |-> 0,
     outcomes |-> <<>>, res |-> "undefined", handled |-> FALSE,
     status |-> 0, error |-> "none", saved |-> FALSE]

InitBackend ==
    /\ othersIdle
    /\ pipe = <<>>
    /\ \E body \in Bodies : \E auth \in AuthKinds :
          web = NoRequest(body, auth)

webFrame ==
    UNCHANGED <<wrapperVars, last, lastSet, threadVars, inst, rec, disk,
                data, pipe>>

\* lines 52-81
WebValidate ==
    /\ web.pc = "validate"
    /\ LET e == validate(web.data) IN
          web' = IF e = "ok"
                 THEN [web EXCEPT !.pc = "call"]
                 ELSE [web EXCEPT !.pc = "done", !.status = 400, !.error = e]
    /\ webFrame

\* lines 90-129: one pass of the retry loop
WebAttempt(outcome, r) ==
    /\ web.pc = "call"
    /\ LET a == after_attempt(web.attempt, outcome) IN
          web' = [web EXCEPT !.pc = a.pc, !.status = a.status,
                             !.attempt = IF a.pc = "done" THEN @ ELSE @ + 1,
                             !.outcomes = Append(@, outcome),
                             !.res = IF outcome = "ok" THEN r ELSE @]
    /\ webFrame

\* lines 131-175
WebHandle(found) ==
    /\ web.pc = "handle"
    /\ LET h == handle_result(web.res, found, web.auth) IN
          web' = [web EXCEPT !.pc = "done", !.handled = TRUE,
                             !.status = h.status, !.saved = h.saved]
    /\ webFrame

NextBackend ==
    \/ WebValidate
    \/ \E outcome \in AttemptOutcomes : \E r \in ResKinds :
          WebAttempt(outcome, r)
    \/ \E found \in BOOLEAN : WebHandle(found)

SpecBackend == InitBackend /\ [][NextBackend]_vars

----------------------------------------------------------------------------
(* Serving from a model trained on a catalog (SpecServe): the ids of a     *)
(* request go from backend/run.py through api/api.py and the wrapper to    *)
(* the model's recommend, the returned ids to get_movies_by_ids.           *)

\* db_helper.get_movies_by_ids(movie_ids): the movies whose _id is one of
\* the ids
get_movies_by_ids(movie_ids, movies) ==
    {movie_ids[j] : j \in 1..Len(movie_ids)} \cap movies

\* contexts of a request: ids of movies of the catalog
CatalogContexts(movies) ==
    {c \in Contexts : Len(c) > 0 /\ \A j \in 1..Len(c) : c[j] \in movies}

\* a model restored from the checkpoint of a training run on the catalog
InitServe ==
    /\ wrapperIdle
    /\ threadInit
    /\ rec = NoRec
    /\ disk = EmptyDir
    /\ data = <<>>
    /\ \E movies \in SUBSET ExtIds \ {{}} :
          /\ pipe = [pc |-> "served", movies |-> movies,
                     movie_ids |-> sorted(movies),
                     movie_id_to_idx |-> id_to_idx(sorted(movies))]
          /\ web = [shown |-> {}]
          /\ \E cls \in NeuralNames :
             \E ck \in {k \in Checkpoints :
                          k.num_items = Cardinality(movies)} :
                inst = restore(NewModel(cls), ck)

\* one request: api.py hands int(context) to wrapper.recommend, which
\* hands it to model.recommend; run.py looks the returned ids up
ServeRequest(user_context, top_k) ==
    /\ rec.op = "none"
    /\ \E r \in recommend(inst, user_context, top_k) :
          /\ inst' = r.obj
          /\ rec' = [NoRec EXCEPT !.op = "recommend", !.ctx = user_context,
                                  !.top_k = top_k, !.outcome = r.outcome,
                                  !.result = r.result,
                                  !.forward = r.forward, !.pre = inst]
          /\ web' = [shown |-> IF r.outcome = "ok"
                               THEN get_movies_by_ids(r.result, pipe.movies)
                               ELSE {}]
    /\ UNCHANGED <<wrapperVars, last, lastSet, threadVars, disk, data, pipe>>

\* the response is sent
ServeReturn ==
    /\ rec.op # "none"
    /\ rec' = NoRec
    /\ web' = [shown |-> {}]
    /\ UNCHANGED <<wrapperVars, last, lastSet, threadVars, inst, disk, data,
                   pipe>>

NextServe ==
    \/ \E c \in CatalogContexts(pipe.movies) : \E k \in 1..MaxTopK :
          ServeRequest(c, k)
    \/ ServeReturn

SpecServe == InitServe /\ [][NextServe]_vars

----------------------------------------------------------------------------
(* Claims on recommend of one model object (SpecRec) *)

\* the last call was recommend on a loaded object with a nonempty context
\* and it returned a list
ReturnedList ==
    /\ rec.op = "recommend"
    /\ rec.pre.model_loaded
    /\ Len(rec.ctx) > 0
    /\ rec.outcome = "ok"

\* the score vector the selection of the last call ran on
MaskedScores == Mask(rec.pre.net, rec.ctx, rec.pre.num_items)

\* catalog items the context of the last call does not exclude
Available ==
    {i \in Items(rec.pre.num_items) :
        \A j \in 1..Len(rec.ctx) : rec.ctx[j] # i}

\* the context of the last call holds catalog ids only
CatalogContext ==
    \A j \in 1..Len(rec.ctx) : rec.ctx[j] \in Items(rec.pre.num_items)

\* C6: the list recommend returns for a nonempty context of catalog ids
\* contains no item id that is in the context, whatever the catalog size.
C6_NoContextItemReturned ==
    (ReturnedList /\ CatalogContext) =>
        \A j \in 1..Len(rec.result) :
            \A i \in 1..Len(rec.ctx) : rec.result[j] # rec.ctx[i]

\* C7: the list recommend returns for a nonempty context has at most top_k
\* entries and no id occurs in it twice.
C7_AtMostTopKUnique ==
    ReturnedList =>
        /\ Len(rec.result) <= rec.top_k
        /\ \A j, l \in 1..Len(rec.result) :
              j # l => rec.result[j] # rec.result[l]

\* a list of two or more ids returned for a nonempty context
C7_Witness ==
    /\ ReturnedList
    /\ Len(rec.result) >= 2
    /\ Len(rec.result) = rec.top_k

\* C8: for a context of catalog ids, recommend returns exactly
\* min(top_k, available) ids, also when top_k reaches the number of items.
C8_ExactlyMinKAvailable ==
    ( /\ rec.op = "recommend"
      /\ rec.pre.model_loaded
      /\ Len(rec.ctx) > 0
      /\ CatalogContext )
    => /\ rec.outcome = "ok"
       /\ Len(rec.result) = Min(rec.top_k, Cardinality(Available))

\* C9: the list returned for a context of catalog ids is in strictly
\* descending order of score, ids of equal score in ascending order of index.
C9_DescendingTiesByIndex ==
    (ReturnedList /\ CatalogContext) =>
        \A j \in 1..(Len(rec.result) - 1) :
            LET a == rec.result[j]
                b == rec.result[j + 1]
            IN \/ MaskedScores[a] > MaskedScores[b]
               \/ MaskedScores[a] = MaskedScores[b] /\ a < b

\* C10: recommend with an empty context on a loaded object returns the
\* empty list, runs no forward pass and leaves the object unchanged.
C10_EmptyContextNoScoring ==
    (rec.op = "recommend" /\ rec.pre.model_loaded /\ Len(rec.ctx) = 0) =>
        /\ rec.outcome = "ok"
        /\ rec.result = <<>>
        /\ rec.forward = 0
        /\ inst = rec.pre

\* recommend([]) called on a restored object
C10_Witness ==
    /\ rec.op = "recommend"
    /\ rec.pre.model_loaded
    /\ rec.pre.num_items > 0
    /\ rec.ctx = <<>>
    /\ rec.outcome = "ok"

----------------------------------------------------------------------------
(* Claims on fit, predict, save and restore of one model object *)

\* C15: whenever fit returns normally, the checkpoint file has been written
\* by that call and the instance is loaded, so that predict and recommend,
\* called right after it, do not fail with NotLoaded.
C15_FitSavesAndLoads ==
    (rec.op = "fit" /\ rec.outcome = "ok") =>
        /\ rec.wrote
        /\ rec.path \in DOMAIN disk
        /\ disk[rec.path].content = SaveContent(inst)
        /\ inst.model_loaded
        /\ \A R \in Matrices : predict(inst, R).outcome # "NotLoaded"
        /\ \A c \in Contexts : \A k \in 1..MaxTopK :
              \A r \in recommend(inst, c, k) : r.outcome # "NotLoaded"

\* fit returned normally on an object that was not loaded before
C15_Witness ==
    /\ rec.op = "fit"
    /\ rec.outcome = "ok"
    /\ ~rec.pre.model_loaded
    /\ rec.path \in DOMAIN disk

\* C16: on an instance that has completed neither fit nor restore, predict
\* and recommend fail with NotLoaded for every argument, the empty context
\* included, and leave the instance unchanged.
C16_NotLoadedBeforeFitOrRestore ==
    (rec.op \in {"predict", "recommend"} /\ ~rec.pre.model_loaded) =>
        /\ rec.outcome = "NotLoaded"
        /\ inst = rec.pre

\* recommend([]) called on an object just constructed
C16_Witness ==
    /\ rec.op = "recommend"
    /\ rec.ctx = <<>>
    /\ ~rec.pre.model_loaded
    /\ rec.outcome = "NotLoaded"

\* the matrix of the last predict call has the shape the model records
ShapeMatches ==
    /\ rec.matrix.rows = rec.pre.num_users
    /\ rec.matrix.cols = rec.pre.num_items

\* C17: predict on a loaded model returns, for a matrix R of the model's
\* shape, and what it returns is a matrix of the shape of R that is -inf
\* at every cell present in R and carries the model's score at every
\* other cell.
C17_PredictMasksPresent ==
    (rec.op = "predict" /\ rec.pre.model_loaded) =>
        /\ ShapeMatches => rec.outcome = "ok"
        /\ rec.outcome = "ok" =>
              /\ DOMAIN rec.scores = Cells(rec.matrix.rows, rec.matrix.cols)
              /\ \A c \in Cells(rec.matrix.rows, rec.matrix.cols) :
                    IF c \in rec.matrix.nz
                    THEN rec.scores[c] = NegInf
                    ELSE /\ rec.scores[c] = Score(rec.pre.net, c[1], c[2])
                         /\ rec.scores[c] # NegInf

\* predict returned for a matrix of the model's shape with one cell present
\* and others not
C17_Witness ==
    /\ rec.op = "predict"
    /\ rec.pre.model_loaded
    /\ ShapeMatches
    /\ rec.outcome = "ok"
    /\ Cardinality(rec.matrix.nz) = 1
    /\ rec.matrix.rows * rec.matrix.cols > 1

\* C18: predict on a loaded model with a matrix whose shape differs from
\* the recorded num_users / num_items fails with InvalidShape and returns
\* no score matrix.
C18_InvalidShapeTyped ==
    (rec.op = "predict" /\ rec.pre.model_loaded /\ ~ShapeMatches) =>
        /\ rec.outcome = "InvalidShape"
        /\ rec.scores = <<>>

\* C19: restore of a path that does not exist fails with FileNotFoundError
\* and leaves the instance as it was (loaded flag, network, num_users,
\* num_items, hyperparameters).
C19_MissingCheckpointLeavesInstance ==
    (rec.op = "restore" /\ rec.path \notin DOMAIN disk) =>
        /\ rec.outcome = "FileNotFoundError"
        /\ inst = rec.pre

\* restore of a missing path called on a loaded object
C19_Witness ==
    /\ rec.op = "restore"
    /\ rec.path \notin DOMAIN disk
    /\ rec.pre.model_loaded
    /\ rec.outcome = "FileNotFoundError"

\* the last call restored, on an object just constructed, a file that a
\* loaded object had saved
RoundTrip ==
    /\ rec.op = "restore"
    /\ rec.outcome = "ok"
    /\ \E hp \in Hypers : rec.pre = NewModelWith(rec.pre.cls, hp)
    /\ disk[rec.path].by.model_loaded

\* C20: restore, on a fresh instance of any hyperparameters, of the file a
\* fitted model saved yields a loaded instance with the saver's num_users,
\* num_items, embedding_dim, hidden_dims, dropout and weights, and predict
\* gives the same output on both for every matrix.
C20_SaveRestoreRoundTrip ==
    RoundTrip =>
        LET by == disk[rec.path].by IN
        /\ inst.model_loaded
        /\ inst.num_users = by.num_users
        /\ inst.num_items = by.num_items
        /\ inst.embedding_dim = by.embedding_dim
        /\ inst.hidden_dims = by.hidden_dims
        /\ inst.dropout = by.dropout
        /\ inst.net = by.net
        /\ \A R \in Matrices :
              /\ predict(inst, R).outcome = predict(by, R).outcome
              /\ predict(inst, R).scores = predict(by, R).scores

\* the round trip into an instance constructed with other hyperparameters
C20_Witness ==
    /\ RoundTrip
    /\ rec.pre.embedding_dim # inst.embedding_dim
    /\ rec.pre.hidden_dims # inst.hidden_dims

----------------------------------------------------------------------------
(* Claims on the life cycle of the slot and of a model object *)

\* C25: whenever set_model(X) returns without raising, the slot holds an
\* object of class X whose restore completed, also when an earlier
\* set_model(X) had failed and the checkpoint was written since.
C25_ReturnedSetModelServes ==
    (lastSet.op = "set_model" /\ lastSet.outcome = "ok") =>
        /\ model # NoneId
        /\ heap[model].cls = lastSet.arg
        /\ heap[model].loaded

\* C26: the object in the slot has completed restore, and recommend is
\* never delegated to an object that has not.
C26_SlotObjectRestored ==
    /\ model # NoneId => heap[model].loaded
    /\ (last.op = "recommend" /\ last.outcome = "delegated") =>
          last.preHeap[last.delegate].loaded

\* C27: a fit or restore that raises on a loaded instance leaves it either
\* not loaded or with the network and num_users / num_items it had.
C27_LoadedStateFromOneCompletedCall ==
    ( /\ rec.op \in {"fit", "restore"}
      /\ rec.outcome # "ok"
      /\ rec.pre.model_loaded
      /\ inst.model_loaded )
    => /\ inst.net = rec.pre.net
       /\ inst.num_users = rec.pre.num_users
       /\ inst.num_items = rec.pre.num_items

\* C29: recommend on a loaded model with a context id outside
\* [0, num_items) fails instead of returning a list, and a returned list
\* never had an item excluded whose index is not in the context.
C29_OutOfRangeContextFails ==
    (rec.op = "recommend" /\ rec.pre.model_loaded /\ Len(rec.ctx) > 0) =>
        /\ ~CatalogContext => rec.outcome \notin {"ok", "none"}
        /\ rec.outcome = "ok" =>
              \A i \in Items(rec.pre.num_items) :
                  MaskedScores[i] = NegInf =>
                      \E j \in 1..Len(rec.ctx) : rec.ctx[j] = i

----------------------------------------------------------------------------
(* Claims on the interaction matrix of the offline pipeline (SpecLoad) *)

\* C21: every stored entry of the interaction matrix equals 1, also when
\* the log holds the same (user, movie) pair more than once.
C21_StoredEntriesAreOne ==
    pipe.pc = "loaded" =>
        \A c \in DOMAIN pipe.rating_matrix.val : pipe.rating_matrix.val[c] = 1

\* number of ids of S below x
Below(S, x) == Cardinality({y \in S : y < x})

\* C22: the index of an id is the number of ids smaller than it (a bijection
\* onto 0..n-1), the shape is (number of users, number of movies), and the
\* stored cells are those of the log entries whose user and movie are known.
C22_SortedDenseRemapping ==
    pipe.pc = "loaded" =>
        LET db == pipe.db
            R == pipe.rating_matrix
        IN
        /\ DOMAIN pipe.user_id_to_idx = db.users
        /\ DOMAIN pipe.movie_id_to_idx = db.movies
        /\ \A x \in db.users : pipe.user_id_to_idx[x] = Below(db.users, x)
        /\ \A x \in db.movies : pipe.movie_id_to_idx[x] = Below(db.movies, x)
        /\ {pipe.user_id_to_idx[x] : x \in db.users}
              = 0..(Cardinality(db.users) - 1)
        /\ {pipe.movie_id_to_idx[x] : x \in db.movies}
              = 0..(Cardinality(db.movies) - 1)
        /\ R.rows = Cardinality(db.users)
        /\ R.cols = Cardinality(db.movies)
        /\ DOMAIN R.val =
              {<<Below(db.users, db.interactions[k].user_id),
                 Below(db.movies, db.interactions[k].movie_id)>> :
                 k \in {j \in 1..Len(db.interactions) :
                           /\ db.interactions[j].user_id \in db.users
                           /\ db.interactions[j].movie_id \in db.movies}}

\* a matrix loaded from a database with two movies, one of them without
\* interactions, from a log with an entry of a known pair and an entry of
\* an unknown user or movie
C22_Witness ==
    /\ pipe.pc = "loaded"
    /\ Cardinality(pipe.db.movies) >= 2
    /\ \E m \in pipe.db.movies :
          \A k \in 1..Len(pipe.db.interactions) :
              pipe.db.interactions[k].movie_id # m
    /\ DOMAIN pipe.rating_matrix.val # {}
    /\ \E k \in 1..Len(pipe.db.interactions) :
          \/ pipe.db.interactions[k].movie_id \notin pipe.db.movies
          \/ pipe.db.interactions[k].user_id \notin pipe.db.users

----------------------------------------------------------------------------
(* Claims on the offline pipeline after loading (SpecPipe) *)

\* the pipeline has passed the evaluation step with a test matrix without
\* nonzero entries
PastEvaluateEmptyTest ==
    /\ pipe.test.nz = {}
    /\ \/ pipe.pc \in {"save", "done"}
       \/ pipe.pc = "failed" /\ pipe.topk # <<>>

----------------------------------------------------------------------------
(* Claims on the backend endpoint (SpecBackend) *)

\* the body lacks a context, lacks a model, or has an empty context
LacksContextOrModel ==
    \/ web.data.context = "absent"
    \/ web.data.context = "empty"
    \/ web.data.model = "absent"

C30_RetryLoop ==
    LET n == Len(web.outcomes) IN
    /\ n <= 2
    /\ n = 2 => web.outcomes[1] \in {"Timeout", "ConnectionError"}
    /\ \A i \in 1..n :
          web.outcomes[i] = "RequestException" =>
              i = n /\ web.pc = "done" /\ web.status = 503
    /\ (web.pc = "done" /\ n > 0 /\ web.outcomes[n] = "Timeout") =>
          web.status = 504
    /\ (web.pc = "done" /\ n > 0 /\ web.outcomes[n] = "ConnectionError") =>
          web.status = 503
    /\ (web.pc = "handle" \/ web.handled) =>
          /\ n > 0
          /\ web.outcomes[n] = "ok"
          /\ web.res # "undefined"

\* a request answered 504 after two calls that timed out
C30_Witness ==
    /\ web.pc = "done"
    /\ web.outcomes = <<"Timeout", "Timeout">>
    /\ web.status = 504

----------------------------------------------------------------------------
(* Claims on the id space at serving time (SpecServe) *)

\* C28: for a context of ids of catalog movies, the index recommend
\* excludes for id c is the index of the movie with external id c, and
\* every id it returns is the external id of the movie at that index.
C28_ServingUsesCatalogIds ==
    (rec.op = "recommend" /\ rec.pre.model_loaded) =>
        /\ \A j \in 1..Len(rec.ctx) :
              /\ IndexOk(rec.ctx[j], rec.pre.num_items)
              /\ NormIndex(rec.ctx[j], rec.pre.num_items)
                    = pipe.movie_id_to_idx[rec.ctx[j]]
        /\ rec.outcome = "ok" =>
              \A j \in 1..Len(rec.result) :
                  pipe.movie_ids[rec.result[j] + 1] = rec.result[j]

====
